---- MODULE Spec2Model ----
(***************************************************************************)
(* Model of the SRP (Structured Retail Products) analysis engine:          *)
(*   projet_SRP/models.py    SRPProduct, SRPProductList, SRPAnalysis       *)
(*   projet_SRP/analyzer.py  SRPAnalyzer                                   *)
(*                                                                         *)
(* Conventions.                                                            *)
(*  - A Python str is a sequence of one-character strings, so that         *)
(*    lower(), substring search and formatting are computed.               *)
(*  - An Enum member is represented by its string value (the enums are     *)
(*    str-Enums: Country.FRANCE == "FR").                                  *)
(*  - Money and rates are integers (an ordered numeric domain); a quotient *)
(*    a / b is the reduced fraction <<num, den>>, so that two quotients    *)
(*    are equal exactly when the two float divisions of the code agree.    *)
(*  - list(set(...)) is represented by the set (its order is not fixed by  *)
(*    the code); a dict is a function on the set of its keys.              *)
(***************************************************************************)
EXTENDS Integers, Sequences, FiniteSets, TLC

VARIABLES
    products,   \* analyzer.products (an SRPProductList)
    analysis,   \* analyzer.analysis (the one SRPAnalysis object of the analyzer)
    ncalls,     \* number of analyze_products calls made on the current analyzer
    last,       \* the last operation called, its arguments and what it returned
    coll,       \* a caller's SRPProductList, built by add_product
    added,      \* the records passed to add_product on coll, in call order
    other,      \* a second SRPProductList of the caller
    linked,     \* the object analyzer.products refers to: "own", "coll" or "other"
    held        \* what the caller noted when analyze_products returned

vars == <<products, analysis, ncalls, last, coll, added, other, linked, held>>

\* An Optional[...] value is a sequence of length 0 (None) or 1 (the value)
None == <<>>

Some(v) == <<v>>

----------------------------------------------------------------------------
(* Bounds of the exploration *)

MaxLen == 2        \* longest collection built in Spec / SpecFilter
PoolSize == 3      \* number of distinct product records offered to add_product
MaxCalls == 2      \* analyze_products calls explored per analyzer
MaxRankLen == 12   \* longest collection built in SpecRank

----------------------------------------------------------------------------
(* Enumerations (models.py) *)

RiskLevel == <<"1", "2", "3", "4", "5">>

ProductType == <<"bond", "note", "certificate", "warrant", "option", "future", "swap", "other">>

Currency == <<"EUR", "USD", "GBP", "CHF", "JPY">>

Country == <<"FR", "BE">>

Range(s) == {s[i] : i \in DOMAIN s}

----------------------------------------------------------------------------
(* Arithmetic helpers *)

RECURSIVE Gcd(_, _)
Gcd(a, b) == IF b = 0 THEN a ELSE Gcd(b, a % b)

\* Python's a / b for b > 0 (true division), as a reduced fraction
Div(a, b) ==
    LET g == Gcd(IF a < 0 THEN -a ELSE a, b)
    IN  <<a \div g, b \div g>>

\* the number 0 as a quotient (0 == 0.0 in Python)
Zero == <<0, 1>>

\* sum(p.nominal_value for p in s)
RECURSIVE SumNominal(_)
SumNominal(s) == IF s = <<>> THEN 0 ELSE Head(s).nominal_value + SumNominal(Tail(s))

\* a dict after d.update(e): the keys of e are (re)assigned, the others kept
Update(d, e) == [k \in DOMAIN d \cup DOMAIN e |-> IF k \in DOMAIN e THEN e[k] ELSE d[k]]

EmptyDict == [k \in {} |-> None]

\* the decimal digits of n >= 0, as characters (str(n))
Digit(n) == <<"0", "1", "2", "3", "4", "5", "6", "7", "8", "9">>[n + 1]

RECURSIVE Str(_)
Str(n) == IF n < 10 THEN <<Digit(n)>> ELSE Str(n \div 10) \o <<Digit(n % 10)>>

\* format(n, "02d"): at least two digits, padded with a zero
Pad2(n) == IF n < 10 THEN <<"0">> \o Str(n) ELSE Str(n)

\* date comparison: a < b on (year, month, day)
DateLess(a, b) ==
    \/ a.year < b.year
    \/ a.year = b.year /\ a.month < b.month
    \/ a.year = b.year /\ a.month = b.month /\ a.day < b.day

\* a comparison that leaves the case of the letters alone
LowerIdentity(s) == s

\* str.lower() of one character, on the alphabet of the model
LowerChar(c) == IF c = "A" THEN "a" ELSE IF c = "B" THEN "b" ELSE c

\* str.lower()
Lower(s) == [i \in DOMAIN s |-> LowerChar(s[i])]

\* Python's `x in s` for two strings
Contains(s, x) ==
    \E i \in 0..(Len(s) - Len(x)) : SubSeq(s, i + 1, i + Len(x)) = x

----------------------------------------------------------------------------
(* models.py: SRPProduct *)

\* a validator that lets a zero nominal value through
validate_nominal_value_nonneg(v) == ~(v < 0)

validate_nominal_value(v) == ~(v <= 0)

validate_coupon_rate(v) == ~(v /= None /\ (v[1] < 0 \/ v[1] > 100))

\* a validator that lets a maturity date equal to the issue date through
validate_maturity_date_lax(v, issue_date) == ~(v /= None /\ DateLess(v[1], issue_date))

validate_maturity_date(v, issue_date) == ~(v /= None /\ ~DateLess(issue_date, v[1]))

\* the fields whose validation fails when SRPProduct(**raw) is called
FieldErrors(raw) ==
    {f \in {"country"} : raw.country \notin Range(Country)}
    \cup {f \in {"currency"} : raw.currency \notin Range(Currency)}
    \cup {f \in {"product_type"} : raw.product_type \notin Range(ProductType)}
    \cup {f \in {"risk_level"} : raw.risk_level \notin Range(RiskLevel)}
    \cup {f \in {"nominal_value"} : ~validate_nominal_value(raw.nominal_value)}
    \cup {f \in {"coupon_rate"} : ~validate_coupon_rate(raw.coupon_rate)}
    \cup {f \in {"maturity_date"} : ~validate_maturity_date(raw.maturity_date, raw.issue_date)}

\* SRPProduct(**raw): the record, or a ValidationError naming the fields
SRPProduct(raw) ==
    IF FieldErrors(raw) = {}
    THEN [op |-> "SRPProduct", ok |-> TRUE, raw |-> raw, value |-> Some(raw), errors |-> {}]
    ELSE [op |-> "SRPProduct", ok |-> FALSE, raw |-> raw, value |-> None, errors |-> FieldErrors(raw)]

----------------------------------------------------------------------------
(* models.py: SRPProductList *)

SRPProductList == [products |-> <<>>, total_count |-> 0, countries |-> <<>>, currencies |-> <<>>]

\* a variant that appends the country and the currency of every record
add_product_dup(c, product) ==
    [products |-> Append(c.products, product),
     total_count |-> Len(c.products) + 1,
     countries |-> Append(c.countries, product.country),
     currencies |-> Append(c.currencies, product.currency)]

\* a variant that puts the new record in front of the others
add_product_front(c, product) ==
    [products |-> <<product>> \o c.products,
     total_count |-> Len(c.products) + 1,
     countries |-> IF product.country \notin Range(c.countries)
                   THEN Append(c.countries, product.country) ELSE c.countries,
     currencies |-> IF product.currency \notin Range(c.currencies)
                    THEN Append(c.currencies, product.currency) ELSE c.currencies]

add_product(c, product) ==
    [products |-> Append(c.products, product),
     total_count |-> Len(c.products) + 1,
     countries |-> IF product.country \notin Range(c.countries)
                   THEN Append(c.countries, product.country) ELSE c.countries,
     currencies |-> IF product.currency \notin Range(c.currencies)
                    THEN Append(c.currencies, product.currency) ELSE c.currencies]

\* the three queries: the collection as the call leaves it, and the list returned
get_products_by_country(c, country) ==
    LET Test(p) == p.country = country
    IN  [self |-> c, value |-> SelectSeq(c.products, Test)]

get_products_by_currency(c, currency) ==
    LET Test(p) == p.currency = currency
    IN  [self |-> c, value |-> SelectSeq(c.products, Test)]

get_products_by_risk_level(c, risk_level) ==
    LET Test(p) == p.risk_level = risk_level
    IN  [self |-> c, value |-> SelectSeq(c.products, Test)]

\* a default result that lists every country with a zero count
SRPAnalysis_dense ==
    [total_products |-> 0, total_value |-> 0, average_nominal_value |-> Zero,
     by_country |-> [c \in Range(Country) |-> [count |-> 0, total_value |-> 0]],
     by_currency |-> EmptyDict,
     by_risk_level |-> EmptyDict, by_product_type |-> EmptyDict,
     top_issuers |-> <<>>, monthly_evolution |-> EmptyDict]

\* SRPAnalysis(): the default field values
SRPAnalysis ==
    [total_products |-> 0, total_value |-> 0, average_nominal_value |-> Zero,
     by_country |-> EmptyDict, by_currency |-> EmptyDict,
     by_risk_level |-> EmptyDict, by_product_type |-> EmptyDict,
     top_issuers |-> <<>>, monthly_evolution |-> EmptyDict]

----------------------------------------------------------------------------
(* analyzer.py: helpers of SRPAnalyzer *)

\* the distinct values of s in the order of their first occurrence
\* (the key order of a Counter or defaultdict filled by one pass over s)
RECURSIVE FirstSeen(_)
FirstSeen(s) ==
    IF s = <<>> THEN <<>>
    ELSE LET front == FirstSeen(SubSeq(s, 1, Len(s) - 1))
             x == s[Len(s)]
         IN  IF x \in Range(front) THEN front ELSE Append(front, x)

\* number of elements of s equal to x
Count(s, x) == Cardinality({i \in DOMAIN s : s[i] = x})

\* an insertion that puts x in front of the elements with an equal key
\* (an ascending sort that is reversed afterwards)
InsertDescReversed(sorted, x) ==
    LET n == Cardinality({i \in DOMAIN sorted : sorted[i].key > x.key})
    IN  SubSeq(sorted, 1, n) \o <<x>> \o SubSeq(sorted, n + 1, Len(sorted))

\* a stable sort in descending key order, as list.sort(key=..., reverse=True):
\* x goes behind every element whose key is >= its own
InsertDesc(sorted, x) ==
    LET n == Cardinality({i \in DOMAIN sorted : sorted[i].key >= x.key})
    IN  SubSeq(sorted, 1, n) \o <<x>> \o SubSeq(sorted, n + 1, Len(sorted))

RECURSIVE SortDesc(_)
SortDesc(s) ==
    IF s = <<>> THEN <<>>
    ELSE InsertDesc(SortDesc(SubSeq(s, 1, Len(s) - 1)), s[Len(s)])

\* s[:n]
Take(s, n) == SubSeq(s, 1, IF Len(s) < n THEN Len(s) ELSE n)

Issuers(ps) == [i \in DOMAIN ps |-> ps[i].issuer]

\* a counter that counts every risk level once
RiskCounter_ones(ps) == [r \in {ps[i].risk_level : i \in DOMAIN ps} |-> 1]

\* Counter(p.risk_level.value for p in ps)
RiskCounter(ps) ==
    [r \in {ps[i].risk_level : i \in DOMAIN ps} |->
        Cardinality({i \in DOMAIN ps : ps[i].risk_level = r})]

\* a variant that returns every issuer of the list
_get_top_issuers_all(ps, limit) ==
    LET keys == FirstSeen(Issuers(ps))
        counted == [i \in DOMAIN keys |-> [key |-> Count(Issuers(ps), keys[i]), issuer |-> keys[i]]]
        common == SortDesc(counted)
    IN  [i \in DOMAIN common |-> [issuer |-> common[i].issuer, count |-> common[i].key]]

_get_top_issuers(ps, limit) ==
    LET keys == FirstSeen(Issuers(ps))
        counted == [i \in DOMAIN keys |-> [key |-> Count(Issuers(ps), keys[i]), issuer |-> keys[i]]]
        common == Take(SortDesc(counted), limit)
    IN  [i \in DOMAIN common |-> [issuer |-> common[i].issuer, count |-> common[i].key]]

RECURSIVE SumCoupons(_)
SumCoupons(s) == IF s = <<>> THEN 0 ELSE Head(s).coupon_rate[1] + SumCoupons(Tail(s))

\* a variant that takes a coupon rate of 0 for an absent one
_calculate_average_coupon_truthy(ps) ==
    LET HasCoupon(p) == p.coupon_rate /= None /\ p.coupon_rate[1] /= 0
        coupons == SelectSeq(ps, HasCoupon)
    IN  IF coupons /= <<>> THEN Some(Div(SumCoupons(coupons), Len(coupons))) ELSE None

_calculate_average_coupon(ps) ==
    LET HasCoupon(p) == p.coupon_rate /= None
        coupons == SelectSeq(ps, HasCoupon)
    IN  IF coupons /= <<>> THEN Some(Div(SumCoupons(coupons), Len(coupons))) ELSE None

----------------------------------------------------------------------------
(* analyzer.py: the analysis steps; each takes the product list and the     *)
(* SRPAnalysis object and gives the object as the step leaves it            *)

Values(ps, field) == {ps[i][field] : i \in DOMAIN ps}

\* basic statistics that count the distinct records
_analyze_basic_stats_distinct(ps, a) ==
    [a EXCEPT !.total_products = Cardinality(Range(ps)),
              !.total_value = SumNominal(ps),
              !.average_nominal_value = IF ps /= <<>> THEN Div(SumNominal(ps), Len(ps)) ELSE @]

\* basic statistics whose average is a floor division
_analyze_basic_stats_floor(ps, a) ==
    [a EXCEPT !.total_products = Len(ps),
              !.total_value = SumNominal(ps),
              !.average_nominal_value = IF ps /= <<>> THEN <<SumNominal(ps) \div Len(ps), 1>> ELSE @]

_analyze_basic_stats(ps, a) ==
    [a EXCEPT !.total_products = Len(ps),
              !.total_value = SumNominal(ps),
              !.average_nominal_value = IF ps /= <<>> THEN Div(SumNominal(ps), Len(ps)) ELSE @]

\* a partition that keeps one copy of each matching record
Partition_dedup(ps, field, v) ==
    LET Match(p) == p[field] = v
    IN  FirstSeen(SelectSeq(ps, Match))

\* the records of ps whose `field` is the enum member v
Partition(ps, field, v) ==
    LET Match(p) == p[field] = v
    IN  SelectSeq(ps, Match)

\* the enum members with at least two records
NonEmptyStrict(ps, field, enum) == {v \in Range(enum) : Len(Partition(ps, field, v)) > 1}

\* the enum members with a non-empty partition
NonEmpty(ps, field, enum) == {v \in Range(enum) : Partition(ps, field, v) /= <<>>}

country_stats(cp) ==
    [count |-> Len(cp),
     total_value |-> SumNominal(cp),
     average_value |-> Div(SumNominal(cp), Len(cp)),
     currencies |-> Values(cp, "currency"),
     product_types |-> Values(cp, "product_type"),
     risk_distribution |-> RiskCounter(cp),
     top_issuers |-> _get_top_issuers(cp, 5)]

_analyze_by_country(ps, a) ==
    [a EXCEPT !.by_country =
        Update(@, [c \in NonEmpty(ps, "country", Country) |->
                      country_stats(Partition(ps, "country", c))])]

currency_stats(cp) ==
    [count |-> Len(cp),
     total_value |-> SumNominal(cp),
     average_value |-> Div(SumNominal(cp), Len(cp)),
     countries |-> Values(cp, "country"),
     product_types |-> Values(cp, "product_type"),
     risk_distribution |-> RiskCounter(cp)]

_analyze_by_currency(ps, a) ==
    [a EXCEPT !.by_currency =
        Update(@, [c \in NonEmpty(ps, "currency", Currency) |->
                      currency_stats(Partition(ps, "currency", c))])]

risk_stats(rp) ==
    [count |-> Len(rp),
     total_value |-> SumNominal(rp),
     average_value |-> Div(SumNominal(rp), Len(rp)),
     countries |-> Values(rp, "country"),
     currencies |-> Values(rp, "currency"),
     product_types |-> Values(rp, "product_type"),
     top_issuers |-> _get_top_issuers(rp, 3)]

_analyze_by_risk_level(ps, a) ==
    [a EXCEPT !.by_risk_level =
        Update(@, [r \in NonEmpty(ps, "risk_level", RiskLevel) |->
                      risk_stats(Partition(ps, "risk_level", r))])]

type_stats(tp) ==
    [count |-> Len(tp),
     total_value |-> SumNominal(tp),
     average_value |-> Div(SumNominal(tp), Len(tp)),
     countries |-> Values(tp, "country"),
     currencies |-> Values(tp, "currency"),
     risk_distribution |-> RiskCounter(tp),
     average_coupon |-> _calculate_average_coupon(tp)]

_analyze_by_product_type(ps, a) ==
    [a EXCEPT !.by_product_type =
        Update(@, [t \in NonEmpty(ps, "product_type", ProductType) |->
                      type_stats(Partition(ps, "product_type", t))])]

\* a variant that groups the issuers without regard to the case of the letters
AddToIssuer_nocase(stats, p) ==
    IF \E i \in DOMAIN stats : Lower(stats[i].issuer) = Lower(p.issuer)
    THEN [i \in DOMAIN stats |->
            IF Lower(stats[i].issuer) = Lower(p.issuer)
            THEN [issuer |-> stats[i].issuer,
                  count |-> stats[i].count + 1,
                  total_value |-> stats[i].total_value + p.nominal_value,
                  countries |-> stats[i].countries \cup {p.country},
                  currencies |-> stats[i].currencies \cup {p.currency},
                  product_types |-> stats[i].product_types \cup {p.product_type}]
            ELSE stats[i]]
    ELSE Append(stats, [issuer |-> p.issuer, count |-> 1, total_value |-> p.nominal_value,
                        countries |-> {p.country}, currencies |-> {p.currency},
                        product_types |-> {p.product_type}])

\* one pass of the loop over the products: issuer_stats[issuer] is created
\* on first sight (at the end of the key order) and accumulated afterwards
AddToIssuer(stats, p) ==
    IF \E i \in DOMAIN stats : stats[i].issuer = p.issuer
    THEN [i \in DOMAIN stats |->
            IF stats[i].issuer = p.issuer
            THEN [issuer |-> p.issuer,
                  count |-> stats[i].count + 1,
                  total_value |-> stats[i].total_value + p.nominal_value,
                  countries |-> stats[i].countries \cup {p.country},
                  currencies |-> stats[i].currencies \cup {p.currency},
                  product_types |-> stats[i].product_types \cup {p.product_type}]
            ELSE stats[i]]
    ELSE Append(stats, [issuer |-> p.issuer, count |-> 1, total_value |-> p.nominal_value,
                        countries |-> {p.country}, currencies |-> {p.currency},
                        product_types |-> {p.product_type}])

RECURSIVE IssuerStats(_)
IssuerStats(ps) ==
    IF ps = <<>> THEN <<>>
    ELSE AddToIssuer(IssuerStats(SubSeq(ps, 1, Len(ps) - 1)), ps[Len(ps)])

\* number of entries kept in analysis.top_issuers
TopN == 10

_analyze_top_issuers(ps, a) ==
    LET stats == IssuerStats(ps)
        top_issuers == [i \in DOMAIN stats |->
            [key |-> stats[i].total_value,
             entry |-> [issuer |-> stats[i].issuer,
                        count |-> stats[i].count,
                        total_value |-> stats[i].total_value,
                        average_value |-> Div(stats[i].total_value, stats[i].count),
                        countries |-> stats[i].countries,
                        currencies |-> stats[i].currencies,
                        product_types |-> stats[i].product_types]]]
        sorted == SortDesc(top_issuers)
    IN  [a EXCEPT !.top_issuers = Take([i \in DOMAIN sorted |-> sorted[i].entry], TopN)]

\* f"{issue_date.year}-{issue_date.month:02d}"
\* a key that keeps the day
month_key_day(d) == Str(d.year) \o <<"-">> \o Pad2(d.month) \o <<"-">> \o Pad2(d.day)

\* f"{product.issue_date.year}-{product.issue_date.month:02d}"
month_key(d) == Str(d.year) \o <<"-">> \o Pad2(d.month)

month_stats(mp) ==
    [count |-> Len(mp),
     total_value |-> SumNominal(mp),
     average_value |-> IF Len(mp) > 0 THEN Div(SumNominal(mp), Len(mp)) ELSE Zero,
     countries |-> Values(mp, "country"),
     currencies |-> Values(mp, "currency")]

_analyze_temporal_evolution(ps, a) ==
    LET keys == {month_key(ps[i].issue_date) : i \in DOMAIN ps}
        InMonth(k) == LET Match(p) == month_key(p.issue_date) = k IN SelectSeq(ps, Match)
    IN  [a EXCEPT !.monthly_evolution = Update(@, [k \in keys |-> month_stats(InMonth(k))])]

\* analyzer = [products, analysis]; arg is None or Some(collection)
analyze_products(self, arg) ==
    LET list == IF arg /= None THEN arg[1] ELSE self.products
        ps == list.products
    IN  IF ps = <<>>
        THEN [products |-> list, analysis |-> self.analysis]
        ELSE [products |-> list,
              analysis |->
                _analyze_temporal_evolution(ps,
                _analyze_top_issuers(ps,
                _analyze_by_product_type(ps,
                _analyze_by_risk_level(ps,
                _analyze_by_currency(ps,
                _analyze_by_country(ps,
                _analyze_basic_stats(ps, self.analysis)))))))]

\* SRPAnalyzer(arg)
SRPAnalyzer(arg) ==
    [products |-> IF arg /= None THEN arg[1] ELSE SRPProductList, analysis |-> SRPAnalysis]

\* a filter dict is a record of Optional values, one per key the caller may
\* supply: key in filters <=> the field is not None.  NoFilters is {}
NoFilters ==
    [country |-> None, currency |-> None, product_type |-> None,
     risk_level |-> None, min_nominal_value |-> None,
     max_nominal_value |-> None, issuer |-> None, sector |-> None]

\* the chain of list comprehensions of get_filtered_products
apply_filters(p0, f) ==
    LET ByCountry(p) == p.country = f.country[1]
        p1 == IF f.country /= None THEN SelectSeq(p0, ByCountry) ELSE p0
        ByCurrency(p) == p.currency = f.currency[1]
        p2 == IF f.currency /= None THEN SelectSeq(p1, ByCurrency) ELSE p1
        ByType(p) == p.product_type = f.product_type[1]
        p3 == IF f.product_type /= None THEN SelectSeq(p2, ByType) ELSE p2
        ByRisk(p) == p.risk_level = f.risk_level[1]
        p4 == IF f.risk_level /= None THEN SelectSeq(p3, ByRisk) ELSE p3
        ByMin(p) == p.nominal_value >= f.min_nominal_value[1]
        p5 == IF f.min_nominal_value /= None THEN SelectSeq(p4, ByMin) ELSE p4
        ByMax(p) == p.nominal_value <= f.max_nominal_value[1]
        p6 == IF f.max_nominal_value /= None THEN SelectSeq(p5, ByMax) ELSE p5
        ByIssuer(p) == Contains(Lower(p.issuer), Lower(f.issuer[1]))
        p7 == IF f.issuer /= None THEN SelectSeq(p6, ByIssuer) ELSE p6
    IN  p7

\* a variant that rejects a filter set holding a key it does not know
get_filtered_products_strict(self, filters) ==
    IF filters /= None /\ filters[1].sector /= None
    THEN <<>>
    ELSE apply_filters(self.products.products, IF filters /= None THEN filters[1] ELSE NoFilters)

\* filters is None or Some(dict); `filters or {}`
get_filtered_products(self, filters) ==
    apply_filters(self.products.products, IF filters /= None THEN filters[1] ELSE NoFilters)

----------------------------------------------------------------------------
(* analyzer.py: the objects the analyzer shares with its caller *)

\* a variant in which the analyzer keeps a copy of the collection it is given
products_reference_copy(self, shared, c) == self

\* a variant in which the analyzer recomputes its result when the collection
\* it was given changes
products_reference_tracking(self, shared, c) ==
    IF shared THEN analyze_products([self EXCEPT !.products = c], None) ELSE self

\* `self.products = products or self.products` binds the caller's object: the
\* analyzer as it is once that object has become c (shared: the object that
\* changed is the one self.products refers to)
products_reference(self, shared, c) ==
    IF shared THEN [self EXCEPT !.products = c] ELSE self

\* whether the list get_filtered_products returns is self.products.products
\* itself: `products` is rebound to a new list only under a recognized key
returns_own_list(filters) ==
    LET f == IF filters /= None THEN filters[1] ELSE NoFilters
    IN  /\ f.country = None /\ f.currency = None /\ f.product_type = None
        /\ f.risk_level = None /\ f.min_nominal_value = None
        /\ f.max_nominal_value = None /\ f.issuer = None

\* result.append(p) on the list a filter call returned: the collection the
\* analyzer refers to afterwards (own: the list is the collection's own)
append_to_returned(c, own, p) ==
    IF own THEN [c EXCEPT !.products = Append(@, p)] ELSE c

----------------------------------------------------------------------------
(* analyzer.py: export and report *)

\* the text of a digit string with "," between groups of three digits
RECURSIVE Grouped(_)
Grouped(t) ==
    IF Len(t) <= 3 THEN t
    ELSE Grouped(SubSeq(t, 1, Len(t) - 3)) \o <<",">> \o SubSeq(t, Len(t) - 2, Len(t))

\* the integer nearest to the fraction q >= 0, ties to the even one
Round0(q) ==
    LET n == q[1] \div q[2]
        r == q[1] % q[2]
    IN  IF 2 * r > q[2] \/ (2 * r = q[2] /\ n % 2 = 1) THEN n + 1 ELSE n

\* f"{n:,}" for an int n >= 0, f"{x:,.0f}" for an int and for a fraction x >= 0
FormatInt(n) == Grouped(Str(n))

FormatFraction(q) == Grouped(Str(Round0(q)))

\* now.strftime('%d/%m/%Y à %H:%M')
strftime(now) ==
    Pad2(now.day) \o <<"/">> \o Pad2(now.month) \o <<"/">> \o Str(now.year)
        \o <<" ", "a", " ">> \o Pad2(now.hour) \o <<":">> \o Pad2(now.minute)

risk_labels ==
    [k \in {"1", "2", "3", "4", "5"} |->
        CASE k = "1" -> "Tres faible"
          [] k = "2" -> "Faible"
          [] k = "3" -> "Moyen"
          [] k = "4" -> "Eleve"
          [] k = "5" -> "Tres eleve"]

\* the subsections of a section are kept by key, not in the order of the dict
_generate_country_section(self) ==
    [k \in DOMAIN self.analysis.by_country |->
        [count |-> Str(self.analysis.by_country[k].count),
         total_value |-> FormatInt(self.analysis.by_country[k].total_value),
         average_value |-> FormatFraction(self.analysis.by_country[k].average_value)]]

_generate_currency_section(self) ==
    [k \in DOMAIN self.analysis.by_currency |->
        [count |-> Str(self.analysis.by_currency[k].count),
         total_value |-> FormatInt(self.analysis.by_currency[k].total_value)]]

_generate_risk_section(self) ==
    [k \in DOMAIN self.analysis.by_risk_level |->
        [label |-> IF k \in DOMAIN risk_labels THEN risk_labels[k] ELSE "Inconnu",
         count |-> Str(self.analysis.by_risk_level[k].count),
         total_value |-> FormatInt(self.analysis.by_risk_level[k].total_value)]]

_generate_issuers_section(self) ==
    LET rows == Take(self.analysis.top_issuers, 10)
    IN  [i \in DOMAIN rows |->
            [issuer |-> rows[i].issuer,
             count |-> Str(rows[i].count),
             total_value |-> FormatInt(rows[i].total_value),
             average_value |-> FormatFraction(rows[i].average_value)]]

\* "<p>Aucune donnée à analyser</p>"
NoDataReport ==
    [placeholder |-> TRUE, header |-> None, statistics |-> None,
     sections |-> [by_country |-> None, by_currency |-> None,
                   by_risk_level |-> None, top_issuers |-> None]]

\* the HTML text, as its parts: a section is None when the text has none
_generate_html_report(self, now) ==
    [placeholder |-> FALSE,
     header |-> Some(strftime(now)),
     statistics |-> Some([total_products |-> FormatInt(self.analysis.total_products),
                          total_value |-> FormatInt(self.analysis.total_value),
                          average_nominal_value |-> FormatFraction(self.analysis.average_nominal_value)]),
     sections |->
        [by_country |-> IF DOMAIN self.analysis.by_country /= {}
                        THEN Some(_generate_country_section(self)) ELSE None,
         by_currency |-> IF DOMAIN self.analysis.by_currency /= {}
                         THEN Some(_generate_currency_section(self)) ELSE None,
         by_risk_level |-> IF DOMAIN self.analysis.by_risk_level /= {}
                           THEN Some(_generate_risk_section(self)) ELSE None,
         top_issuers |-> IF self.analysis.top_issuers /= <<>>
                         THEN Some(_generate_issuers_section(self)) ELSE None]]

\* a variant that drops the result when the file cannot be written
export_analysis_to_json_reset(self, file_path, writable) ==
    [self |-> IF writable THEN self ELSE [self EXCEPT !.analysis = SRPAnalysis],
     raised |-> FALSE, value |-> None,
     data |-> self.analysis,
     file |-> IF writable THEN Some(self.analysis) ELSE None]

\* export_analysis_to_json(file_path): the analyzer as the call leaves it,
\* whether the call raised, the value returned, the dict handed to json.dump
\* and what the file holds afterwards (None: nothing was written); writable
\* says whether open and json.dump succeed
export_analysis_to_json(self, file_path, writable) ==
    [self |-> self,
     raised |-> FALSE, value |-> None,
     data |-> self.analysis,
     file |-> IF writable THEN Some(self.analysis) ELSE None]

\* generate_report(output_file), with output_file None or Some(path)
generate_report(self, output_file, writable, now) ==
    IF self.analysis.total_products = 0
    THEN [self |-> self, raised |-> FALSE, value |-> NoDataReport, file |-> None]
    ELSE LET html_content == _generate_html_report(self, now)
         IN  [self |-> self, raised |-> FALSE, value |-> html_content,
              file |-> IF output_file /= None /\ output_file[1] /= <<>> /\ writable
                       THEN Some(html_content) ELSE None]

----------------------------------------------------------------------------
(* The records offered to the operations *)

IssuerNames == << <<"A", "b">>, <<"a", "b">>, <<"b">>, <<"a">> >>

Nominals == <<2, 1, 2, 3>>

Coupons == <<None, Some(0), Some(100)>>

At(s, i) == s[((i - 1) % Len(s)) + 1]

\* the i-th raw record of the pool
Raw(i) ==
    [product_id |-> <<"p">> \o Str(i),
     product_name |-> <<"n">>,
     issuer |-> At(IssuerNames, i),
     country |-> At(Country, i),
     currency |-> At(Currency, i),
     issue_date |-> [year |-> 2024, month |-> 8 + (((i - 1) \div 2) % 2), day |-> 15 + (i % 2)],
     maturity_date |-> None,
     nominal_value |-> At(Nominals, i),
     coupon_rate |-> At(Coupons, i),
     product_type |-> At(ProductType, ((i - 1) \div 2) + 1),
     risk_level |-> At(RiskLevel, i + 1)]

\* the records that construction accepts
Pool == {SRPProduct(Raw(i)).value[1] : i \in {j \in 1..PoolSize : SRPProduct(Raw(j)).ok}}

----------------------------------------------------------------------------
(* Operations *)

\* the SRPProductList obtained by add_product of the records of s, in order
RECURSIVE Collection(_)
Collection(s) ==
    IF s = <<>> THEN SRPProductList
    ELSE add_product(Collection(SubSeq(s, 1, Len(s) - 1)), s[Len(s)])

\* the collections handed to the analyzer
Collections == {Collection(s) : s \in UNION {[1..n -> Pool] : n \in 0..MaxLen}}

\* an optional collection argument: omitted, or one of the collections
Args == {None} \cup {Some(c) : c \in Collections}

\* the caller has not called analyze_products yet
NothingHeld == [R1 |-> None, R |-> None, c |-> None]

Init ==
    /\ products = SRPAnalyzer(None).products
    /\ analysis = SRPAnalyzer(None).analysis
    /\ ncalls = 0
    /\ last = [op |-> "SRPAnalyzer", arg |-> None]
    /\ coll = SRPProductList
    /\ added = <<>>
    /\ other = SRPProductList
    /\ linked = "own"
    /\ held = NothingHeld

\* analyzer = SRPAnalyzer() or SRPAnalyzer(c)
NewAnalyzer ==
    \E arg \in Args :
        /\ products' = SRPAnalyzer(arg).products
        /\ analysis' = SRPAnalyzer(arg).analysis
        /\ ncalls' = 0
        /\ last' = [op |-> "SRPAnalyzer", arg |-> arg]
        /\ UNCHANGED <<coll, added, other, linked, held>>

\* analyzer.analyze_products() or analyzer.analyze_products(c), arg in args
Analyze(args) ==
    \E arg \in args :
        /\ ncalls < MaxCalls
        /\ LET self == analyze_products([products |-> products, analysis |-> analysis], arg)
           IN  /\ products' = self.products
               /\ analysis' = self.analysis
        /\ ncalls' = ncalls + 1
        /\ last' = [op |-> "analyze_products", arg |-> arg]
        /\ UNCHANGED <<coll, added, other, linked, held>>

AnalyzeProducts == Analyze(Args)

Next == NewAnalyzer \/ AnalyzeProducts

Spec == Init /\ [][Next]_vars

----------------------------------------------------------------------------
(* Ranking of issuers: long collections, one issuer per position *)

\* the record at position i of a ranked collection: positions 1 and 2 carry
\* the first issuer, every later position a new one; the nominal value v is free
RankRaw(i, v) ==
    [product_id |-> <<"r">> \o Str(i),
     product_name |-> <<"n">>,
     issuer |-> <<"i">> \o Str(IF i = 1 THEN 1 ELSE i - 1),
     country |-> "FR",
     currency |-> "EUR",
     issue_date |-> [year |-> 2024, month |-> 8, day |-> 15],
     maturity_date |-> None,
     nominal_value |-> v,
     coupon_rate |-> None,
     product_type |-> "bond",
     risk_level |-> "3"]

\* the nominal values offered at position i
RankNominals(i) == IF i = 2 THEN {1} ELSE {1, 2}

RECURSIVE RankSeqs(_)
RankSeqs(n) ==
    IF n = 0 THEN {<<>>}
    ELSE {Append(s, SRPProduct(RankRaw(n, v)).value[1]) :
            s \in RankSeqs(n - 1), v \in RankNominals(n)}

RankArgs == {Some(Collection(s)) : s \in UNION {RankSeqs(n) : n \in 0..MaxRankLen}}

\* a new analyzer analyzes a ranked collection; afterwards it is called again
\* with an empty collection
AnalyzeRanked ==
    Analyze(IF ncalls = 0 THEN RankArgs ELSE {Some(SRPProductList)})

ResetAnalyzer ==
    /\ products' = SRPAnalyzer(None).products
    /\ analysis' = SRPAnalyzer(None).analysis
    /\ ncalls' = 0
    /\ last' = [op |-> "SRPAnalyzer", arg |-> None]
    /\ UNCHANGED <<coll, added, other, linked, held>>

NextRank == ResetAnalyzer \/ AnalyzeRanked

SpecRank == Init /\ [][NextRank]_vars

----------------------------------------------------------------------------
(* Filtering *)

FilterSets ==
    {None} \cup
    {Some([country |-> c, currency |-> cur, product_type |-> t, risk_level |-> r,
           min_nominal_value |-> lo, max_nominal_value |-> hi, issuer |-> iss, sector |-> x]) :
        c \in {None, Some("FR")},
        cur \in {None, Some("USD")},
        t \in {None, Some("bond")},
        r \in {None, Some("2")},
        lo \in {None, Some(2)},
        hi \in {None, Some(1)},
        iss \in {None, Some(<<"A">>)},
        x \in {None, Some("bank")}}

GetFilteredProducts ==
    \E filters \in FilterSets :
        /\ last' = [op |-> "get_filtered_products", filters |-> filters,
                    value |-> get_filtered_products([products |-> products, analysis |-> analysis], filters)]
        /\ UNCHANGED <<products, analysis, ncalls, coll, added, other, linked, held>>

NextFilter == NewAnalyzer \/ GetFilteredProducts

SpecFilter == Init /\ [][NextFilter]_vars

----------------------------------------------------------------------------
(* Construction of records *)

MaxNominal == 2    \* largest nominal_value offered to the constructor

Dates == [year : {2024}, month : {8}, day : {14, 15, 16}]

RawInputs ==
    [product_id : {<<>>, <<"p">>},
     product_name : {<<"n">>},
     issuer : {<<"a">>},
     country : {"FR", "XX"},
     currency : {"EUR"},
     issue_date : {[year |-> 2024, month |-> 8, day |-> 15]},
     maturity_date : {None} \cup {Some(d) : d \in Dates},
     nominal_value : (-1)..MaxNominal,
     coupon_rate : {None} \cup {Some(v) : v \in {-1, 0, 50, 100, 101}},
     product_type : {"bond"},
     risk_level : {"3"}]

\* SRPProduct(**raw)
Construct ==
    \E raw \in RawInputs :
        /\ last' = SRPProduct(raw)
        /\ UNCHANGED <<products, analysis, ncalls, coll, added, other, linked, held>>

NextRecord == Construct

SpecRecord == Init /\ [][NextRecord]_vars

----------------------------------------------------------------------------
(* utils.py: raw records *)

\* A raw record is a dict read from JSON, here a record whose fields are
\* Optional: None when the key is absent.  A text is a sequence of characters;
\* the text of a date is <<y, m, d>> for "y-m-d" and <<>> for the empty text; a
\* number or a non-numeric text is [num |-> TRUE, v |-> n] or [num |-> FALSE, v |-> 0].

\* dict.get(key, default)
ItemGet(x, default) == IF x /= None THEN x[1] ELSE default

DaysInMonth(y, m) ==
    IF m \in {4, 6, 9, 11} THEN 30
    ELSE IF m = 2
         THEN (IF y % 4 = 0 /\ (y % 100 /= 0 \/ y % 400 = 0) THEN 29 ELSE 28)
         ELSE 31

\* date.fromisoformat(t): Some(date), or None when it raises ValueError
fromisoformat(t) ==
    IF /\ Len(t) = 3
       /\ t[1] \in 1..9999
       /\ t[2] \in 1..12
       /\ t[3] \in 1..DaysInMonth(t[1], t[2])
    THEN Some([year |-> t[1], month |-> t[2], day |-> t[3]])
    ELSE None

\* float(x): Some(number), or None when it raises ValueError
float(x) == IF x.num THEN Some(x.v) ELSE None

Number(n) == [num |-> TRUE, v |-> n]

NotANumber == [num |-> FALSE, v |-> 0]

\* the truth value of a text, of the text of an enumeration value (a string
\* here) and of a number or text
TruthyText(t) == t /= <<>>

TruthyName(t) == t /= ""

TruthyNumber(x) == ~x.num \/ x.v /= 0

NomInconnu == <<"N", "o", "m", " ", "i", "n", "c", "o", "n", "n", "u">>

EmetteurInconnu == <<"E", "m", "e", "t", "t", "e", "u", "r", " ", "i", "n", "c", "o", "n", "n", "u">>

\* required_fields of validate_srp_data
Required == <<"id", "name", "issuer", "country", "currency", "issue_date", "nominal_value">>

\* a variant that refuses a raw record without one of the required keys
convert_item_strict(item, h) ==
    LET country == ItemGet(item.country, "FR")
        currency == ItemGet(item.currency, "EUR")
        issue_date == fromisoformat(ItemGet(item.issue_date, <<2024, 8, 15>>))
        has_maturity == item.maturity_date /= None /\ TruthyText(item.maturity_date[1])
        maturity_date == IF has_maturity THEN fromisoformat(item.maturity_date[1]) ELSE None
        nominal_value == float(ItemGet(item.nominal_value, Number(1000)))
        has_coupon == item.coupon_rate /= None
        coupon_rate == IF has_coupon THEN float(item.coupon_rate[1]) ELSE None
        product_type == ItemGet(item.type, "other")
        risk_level == ItemGet(item.risk, "3")
        raises ==
            \/ \E f \in Range(Required) : item[f] = None
            \/ country \notin Range(Country)
            \/ currency \notin Range(Currency)
            \/ issue_date = None
            \/ has_maturity /\ maturity_date = None
            \/ nominal_value = None
            \/ has_coupon /\ coupon_rate = None
            \/ product_type \notin Range(ProductType)
            \/ risk_level \notin Range(RiskLevel)
    IN  IF raises THEN None
        ELSE SRPProduct([product_id |-> ItemGet(item.id, h),
                         product_name |-> ItemGet(item.name, NomInconnu),
                         issuer |-> ItemGet(item.issuer, EmetteurInconnu),
                         country |-> country,
                         currency |-> currency,
                         issue_date |-> issue_date[1],
                         maturity_date |-> maturity_date,
                         nominal_value |-> nominal_value[1],
                         coupon_rate |-> coupon_rate,
                         product_type |-> product_type,
                         risk_level |-> risk_level]).value

\* the conversion of one raw record, the body of the try block: Some(record),
\* or None when an expression of the call or the constructor raises; h is
\* str(hash(str(item)))
convert_item(item, h) ==
    LET country == ItemGet(item.country, "FR")
        currency == ItemGet(item.currency, "EUR")
        issue_date == fromisoformat(ItemGet(item.issue_date, <<2024, 8, 15>>))
        has_maturity == item.maturity_date /= None /\ TruthyText(item.maturity_date[1])
        maturity_date == IF has_maturity THEN fromisoformat(item.maturity_date[1]) ELSE None
        nominal_value == float(ItemGet(item.nominal_value, Number(1000)))
        has_coupon == item.coupon_rate /= None
        coupon_rate == IF has_coupon THEN float(item.coupon_rate[1]) ELSE None
        product_type == ItemGet(item.type, "other")
        risk_level == ItemGet(item.risk, "3")
        raises ==
            \/ country \notin Range(Country)
            \/ currency \notin Range(Currency)
            \/ issue_date = None
            \/ has_maturity /\ maturity_date = None
            \/ nominal_value = None
            \/ has_coupon /\ coupon_rate = None
            \/ product_type \notin Range(ProductType)
            \/ risk_level \notin Range(RiskLevel)
    IN  IF raises THEN None
        ELSE SRPProduct([product_id |-> ItemGet(item.id, h),
                         product_name |-> ItemGet(item.name, NomInconnu),
                         issuer |-> ItemGet(item.issuer, EmetteurInconnu),
                         country |-> country,
                         currency |-> currency,
                         issue_date |-> issue_date[1],
                         maturity_date |-> maturity_date,
                         nominal_value |-> nominal_value[1],
                         coupon_rate |-> coupon_rate,
                         product_type |-> product_type,
                         risk_level |-> risk_level]).value

\* a variant without the try block: the first record that raises ends the call
RECURSIVE convert_to_srp_products_abort(_, _)
convert_to_srp_products_abort(data, h) ==
    IF data = <<>> THEN [raised |-> FALSE, value |-> <<>>]
    ELSE LET done == convert_to_srp_products_abort(SubSeq(data, 1, Len(data) - 1), h)
             product == convert_item(data[Len(data)], h)
         IN  IF done.raised \/ product = None
             THEN [raised |-> TRUE, value |-> <<>>]
             ELSE [done EXCEPT !.value = Append(@, product[1])]

\* convert_to_srp_products(data): whether the call raised, and the list returned
RECURSIVE convert_to_srp_products(_, _)
convert_to_srp_products(data, h) ==
    IF data = <<>> THEN [raised |-> FALSE, value |-> <<>>]
    ELSE LET done == convert_to_srp_products(SubSeq(data, 1, Len(data) - 1), h)
             product == convert_item(data[Len(data)], h)
         IN  IF product = None
             THEN done
             ELSE [done EXCEPT !.value = Append(@, product[1])]

\* the message "Produit {i}: {text}", with the field named in it if any
Message(i, text, field) == [record |-> i, text |-> text, field |-> field]

\* `field not in product or not product[field]`
MissingOrEmpty(product, field) ==
    \/ product[field] = None
    \/ field \in {"id", "name", "issuer", "issue_date"} /\ ~TruthyText(product[field][1])
    \/ field \in {"country", "currency"} /\ ~TruthyName(product[field][1])
    \/ field = "nominal_value" /\ ~TruthyNumber(product[field][1])

\* the body of the try block for the record numbered i: the messages appended,
\* and whether an exception leaves the block
validate_product(product, i) ==
    LET IsMissing(f) == MissingOrEmpty(product, f)
        missing == SelectSeq(Required, IsMissing)
        e1 == [k \in DOMAIN missing |-> Message(i, "Champ manquant ou vide", missing[k])]
        e2 == IF product.nominal_value = None THEN <<>>
              ELSE IF float(product.nominal_value[1]) = None
                   THEN <<Message(i, "Valeur nominale invalide", "")>>
                   ELSE IF float(product.nominal_value[1])[1] <= 0
                        THEN <<Message(i, "Valeur nominale doit etre positive", "")>>
                        ELSE <<>>
        e3 == IF product.issue_date /= None /\ fromisoformat(product.issue_date[1]) = None
              THEN <<Message(i, "Date d'emission invalide", "")>>
              ELSE <<>>
        has_maturity == product.maturity_date /= None /\ TruthyText(product.maturity_date[1])
        maturity == fromisoformat(product.maturity_date[1])
        issue == fromisoformat(product.issue_date[1])
        \* product["issue_date"] raises KeyError, which `except ValueError` lets through
        key_error == has_maturity /\ maturity /= None /\ product.issue_date = None
        e4 == IF ~has_maturity \/ key_error THEN <<>>
              ELSE IF maturity = None \/ issue = None
                   THEN <<Message(i, "Date d'echeance invalide", "")>>
                   ELSE IF ~DateLess(issue[1], maturity[1])
                        THEN <<Message(i, "Date d'echeance doit etre posterieure a la date d'emission", "")>>
                        ELSE <<>>
        e5 == IF product.coupon_rate = None THEN <<>>
              ELSE IF float(product.coupon_rate[1]) = None
                   THEN <<Message(i, "Taux de coupon invalide", "")>>
                   ELSE IF float(product.coupon_rate[1])[1] < 0 \/ float(product.coupon_rate[1])[1] > 100
                        THEN <<Message(i, "Taux de coupon doit etre entre 0 et 100%", "")>>
                        ELSE <<>>
    IN  IF key_error
        THEN [raised |-> TRUE, errors |-> e1 \o e2 \o e3]
        ELSE [raised |-> FALSE, errors |-> e1 \o e2 \o e3 \o e4 \o e5]

\* a variant without the outer try block: an exception leaves the call
RECURSIVE validate_srp_data_unguarded(_)
validate_srp_data_unguarded(data) ==
    IF data = <<>> THEN [raised |-> FALSE, value |-> <<>>]
    ELSE LET done == validate_srp_data_unguarded(SubSeq(data, 1, Len(data) - 1))
             body == validate_product(data[Len(data)], Len(data))
         IN  IF done.raised \/ body.raised
             THEN [raised |-> TRUE, value |-> <<>>]
             ELSE [done EXCEPT !.value = @ \o body.errors]

\* validate_srp_data(data): whether the call raised, and the list returned
RECURSIVE validate_srp_data(_)
validate_srp_data(data) ==
    IF data = <<>> THEN [raised |-> FALSE, value |-> <<>>]
    ELSE LET done == validate_srp_data(SubSeq(data, 1, Len(data) - 1))
             body == validate_product(data[Len(data)], Len(data))
         IN  IF body.raised
             THEN [done EXCEPT !.value = @ \o body.errors
                                           \o <<Message(Len(data), "Erreur de validation", "")>>]
             ELSE [done EXCEPT !.value = @ \o body.errors]

----------------------------------------------------------------------------
(* Batches of raw records *)

MaxBatch == 2      \* longest batch of raw records

\* the raw record of the tests
BaseItem ==
    [id |-> Some(<<"p">>), name |-> Some(<<"n">>), issuer |-> Some(<<"a">>),
     country |-> Some("FR"), currency |-> Some("EUR"),
     issue_date |-> Some(<<2024, 8, 15>>), maturity_date |-> None,
     nominal_value |-> Some(Number(10)), coupon_rate |-> None,
     type |-> Some("bond"), risk |-> Some("3")]

\* the raw record of the tests and records that differ from it in one or two fields
Items ==
    {BaseItem,
     [BaseItem EXCEPT !.id = None],
     [BaseItem EXCEPT !.name = Some(<<>>)],
     [BaseItem EXCEPT !.issuer = None],
     [BaseItem EXCEPT !.country = Some("XX")],
     [BaseItem EXCEPT !.country = None, !.currency = Some("")],
     [BaseItem EXCEPT !.issue_date = Some(<<2024, 2, 30>>)],
     [BaseItem EXCEPT !.issue_date = None],
     [BaseItem EXCEPT !.issue_date = None, !.maturity_date = Some(<<2024, 8, 16>>)],
     [BaseItem EXCEPT !.issue_date = None, !.maturity_date = Some(<<2024, 8, 15>>)],
     [BaseItem EXCEPT !.maturity_date = Some(<<2024, 8, 16>>), !.coupon_rate = Some(Number(100))],
     [BaseItem EXCEPT !.maturity_date = Some(<<2024, 8, 15>>)],
     [BaseItem EXCEPT !.maturity_date = Some(<<>>), !.type = None, !.risk = None],
     [BaseItem EXCEPT !.maturity_date = Some(<<2024, 13, 1>>)],
     [BaseItem EXCEPT !.nominal_value = Some(Number(0))],
     [BaseItem EXCEPT !.nominal_value = Some(Number(-1)), !.name = Some(<<>>)],
     [BaseItem EXCEPT !.nominal_value = Some(NotANumber)],
     [BaseItem EXCEPT !.nominal_value = None],
     [BaseItem EXCEPT !.coupon_rate = Some(Number(101))],
     [BaseItem EXCEPT !.coupon_rate = Some(NotANumber)],
     [BaseItem EXCEPT !.risk = Some("9")]}

Batches == UNION {[1..n -> Items] : n \in 0..MaxBatch}

\* the texts str(hash(str(item))) may give
HashStrings == {<<"7">>, <<"-", "7">>}

\* a batch of raw records has been read
InitBatch ==
    /\ products = SRPAnalyzer(None).products
    /\ analysis = SRPAnalyzer(None).analysis
    /\ ncalls = 0
    /\ last \in {[op |-> "load", data |-> data] : data \in Batches}
    /\ coll = SRPProductList
    /\ added = <<>>
    /\ other = SRPProductList
    /\ linked = "own"
    /\ held = NothingHeld

\* products = convert_to_srp_products(data)
Convert ==
    \E data \in {last.data}, h \in HashStrings :
        /\ last.op = "load"
        /\ last' = [op |-> "convert_to_srp_products", data |-> data, h |-> h,
                    raised |-> convert_to_srp_products(data, h).raised,
                    value |-> convert_to_srp_products(data, h).value]
        /\ UNCHANGED <<products, analysis, ncalls, coll, added, other, linked, held>>

\* errors = validate_srp_data(data)
Validate ==
    \E data \in {last.data} :
        /\ last.op = "load"
        /\ last' = [op |-> "validate_srp_data", data |-> data,
                    raised |-> validate_srp_data(data).raised,
                    value |-> validate_srp_data(data).value]
        /\ UNCHANGED <<products, analysis, ncalls, coll, added, other, linked, held>>

NextBatch == Convert \/ Validate

SpecBatch == InitBatch /\ [][NextBatch]_vars

----------------------------------------------------------------------------
(* Exporting and reporting *)

\* the collections analyzed before a report is made
ReportArgs ==
    {None} \cup
    {Some(Collection(s)) : s \in {t \in {<<>>, <<Raw(1)>>, <<Raw(1), Raw(2)>>, <<Raw(3), Raw(1), Raw(1)>>} :
                                    \A i \in DOMAIN t : SRPProduct(t[i]).ok}}

AnalyzeForReport == Analyze(ReportArgs)

FilePaths == {None, Some(<<>>), Some(<<"r">>)}

\* the values of datetime.now() at the calls
Clocks == [year : {2024}, month : {8}, day : {15}, hour : {9}, minute : {5, 6}]

\* analyzer.export_analysis_to_json(file_path)
ExportAnalysisToJson ==
    \E file_path \in FilePaths \ {None}, writable \in BOOLEAN :
        LET self == [products |-> products, analysis |-> analysis]
            r == export_analysis_to_json(self, file_path[1], writable)
        IN  /\ products' = r.self.products
            /\ analysis' = r.self.analysis
            /\ last' = [op |-> "export_analysis_to_json", before |-> self,
                        file_path |-> file_path, writable |-> writable, now |-> None,
                        raised |-> r.raised, value |-> r.value, file |-> r.file]
            /\ UNCHANGED <<ncalls, coll, added, other, linked, held>>

\* analyzer.generate_report() or analyzer.generate_report(output_file)
GenerateReport ==
    \E output_file \in FilePaths, writable \in BOOLEAN, now \in Clocks :
        LET self == [products |-> products, analysis |-> analysis]
            r == generate_report(self, output_file, writable, now)
        IN  /\ products' = r.self.products
            /\ analysis' = r.self.analysis
            /\ last' = [op |-> "generate_report", before |-> self,
                        file_path |-> output_file, writable |-> writable, now |-> Some(now),
                        raised |-> r.raised, value |-> r.value, file |-> r.file]
            /\ UNCHANGED <<ncalls, coll, added, other, linked, held>>

NextReport ==
    \/ ResetAnalyzer
    \/ AnalyzeForReport
    \/ ExportAnalysisToJson
    \/ GenerateReport

SpecReport == Init /\ [][NextReport]_vars

----------------------------------------------------------------------------
(* Month keys and their order *)

\* the code point of a character of a month key
CharCode(c) == IF c = "-" THEN 45 ELSE 48 + (CHOOSE n \in 0..9 : Digit(n) = c)

\* Python's s < t for two strings: the order sorted() puts keys in
RECURSIVE StrLess(_, _)
StrLess(s, t) ==
    IF t = <<>> THEN FALSE
    ELSE IF s = <<>> THEN TRUE
    ELSE IF Head(s) /= Head(t) THEN CharCode(Head(s)) < CharCode(Head(t))
    ELSE StrLess(Tail(s), Tail(t))

\* issue dates of records: three-digit and four-digit years, one-digit and
\* two-digit months
IssueDates == [year : {999, 1000, 2024}, month : {1, 9, 10, 12}, day : {15}]

\* two records are constructed with the issue dates a and b
InitMonth ==
    /\ products = SRPAnalyzer(None).products
    /\ analysis = SRPAnalyzer(None).analysis
    /\ ncalls = 0
    /\ last \in {[op |-> "issue_dates", a |-> a, b |-> b] : a \in IssueDates, b \in IssueDates}
    /\ coll = SRPProductList
    /\ added = <<>>
    /\ other = SRPProductList
    /\ linked = "own"
    /\ held = NothingHeld

\* the month keys of the two records are built and compared as sorted() does
CompareMonthKeys ==
    /\ last.op = "issue_dates"
    /\ SRPProduct([Raw(1) EXCEPT !.issue_date = last.a]).ok
    /\ SRPProduct([Raw(1) EXCEPT !.issue_date = last.b]).ok
    /\ last' = [op |-> "month_key", a |-> last.a, b |-> last.b,
                key_a |-> month_key(last.a), key_b |-> month_key(last.b),
                less |-> StrLess(month_key(last.a), month_key(last.b))]
    /\ UNCHANGED <<products, analysis, ncalls, coll, added, other, linked, held>>

NextMonth == CompareMonthKeys

SpecMonth == InitMonth /\ [][NextMonth]_vars

----------------------------------------------------------------------------
(* An analyzer and the collections of its caller *)

MaxAliasLen == 2   \* longest collection built by the caller

AliasPool == {Raw(1), Raw(2)}

AliasFilters ==
    {None, Some(NoFilters),
     Some([NoFilters EXCEPT !.country = Some("FR")]),
     Some([NoFilters EXCEPT !.sector = Some("bank")])}

\* the analyzer once the object `name` of the caller has become c
Follow(name, c) ==
    products_reference([products |-> products, analysis |-> analysis], linked = name, c)

\* c.add_product(p)
AliasAddProduct ==
    \E p \in AliasPool :
        /\ Len(coll.products) < MaxAliasLen
        /\ coll' = add_product(coll, p)
        /\ added' = Append(added, p)
        /\ products' = Follow("coll", coll').products
        /\ analysis' = Follow("coll", coll').analysis
        /\ last' = [op |-> "add_product", on |-> "coll", product |-> p, before |-> coll]
        /\ UNCHANGED <<ncalls, other, linked, held>>

\* c2.add_product(p)
OtherAddProduct ==
    /\ other.products = <<>>
    /\ other' = add_product(other, Raw(3))
    /\ products' = Follow("other", other').products
    /\ analysis' = Follow("other", other').analysis
    /\ last' = [op |-> "add_product", on |-> "other", product |-> Raw(3), before |-> other]
    /\ UNCHANGED <<ncalls, coll, added, linked, held>>

\* R = analyzer.analyze_products(given), given being the caller's object `name`
AnalyzeGiven(name, given) ==
    /\ ncalls < MaxCalls
    /\ LET self == analyze_products([products |-> products, analysis |-> analysis], Some(given))
       IN  /\ products' = self.products
           /\ analysis' = self.analysis
           /\ held' = [R1 |-> IF held.R1 = None THEN Some(self.analysis) ELSE held.R1,
                       R |-> Some(self.analysis),
                       c |-> Some(given)]
    /\ ncalls' = ncalls + 1
    /\ linked' = name
    /\ last' = [op |-> "analyze_products", arg |-> Some(given)]
    /\ UNCHANGED <<coll, added, other>>

AnalyzeColl == AnalyzeGiven("coll", coll)

AnalyzeOther == AnalyzeGiven("other", other)

\* result = analyzer.get_filtered_products(filters)
AliasFilter ==
    \E filters \in AliasFilters :
        /\ last' = [op |-> "get_filtered_products", filters |-> filters,
                    value |-> get_filtered_products([products |-> products, analysis |-> analysis], filters),
                    own |-> returns_own_list(filters)]
        /\ UNCHANGED <<products, analysis, ncalls, coll, added, other, linked, held>>

\* result.append(p), result being the list the last filter call returned
AppendToReturned ==
    /\ last.op = "get_filtered_products"
    /\ Len(products.products) <= MaxAliasLen
    /\ products' = append_to_returned(products, last.own, Raw(1))
    /\ coll' = IF linked = "coll" THEN products' ELSE coll
    /\ other' = IF linked = "other" THEN products' ELSE other
    /\ last' = [op |-> "append", before |-> products, own |-> last.own]
    /\ UNCHANGED <<analysis, ncalls, added, linked, held>>

NextAlias ==
    \/ AliasAddProduct
    \/ OtherAddProduct
    \/ AnalyzeColl
    \/ AnalyzeOther
    \/ AliasFilter
    \/ AppendToReturned

SpecAlias == Init /\ [][NextAlias]_vars

----------------------------------------------------------------------------
(* Building and querying a collection *)

MaxListLen == 3    \* longest collection built by add_product

ListPool == 4      \* number of raw records offered to add_product

ListCountries == <<"FR", "BE">>

ListCurrencies == <<"EUR", "USD", "USD", "EUR">>

ListRisks == <<"1", "1", "2">>

\* the i-th raw record a caller builds; every fourth one has an empty id, name
\* and issuer
ListRaw(i) ==
    [product_id |-> IF i % 4 = 0 THEN <<>> ELSE <<"p">> \o Str(i),
     product_name |-> IF i % 4 = 0 THEN <<>> ELSE <<"n">>,
     issuer |-> IF i % 4 = 0 THEN <<>> ELSE <<"a">>,
     country |-> At(ListCountries, i),
     currency |-> At(ListCurrencies, i),
     issue_date |-> [year |-> 2024, month |-> 8, day |-> 15],
     maturity_date |-> None,
     nominal_value |-> i,
     coupon_rate |-> None,
     product_type |-> "bond",
     risk_level |-> At(ListRisks, i)]

\* product_list = SRPProductList()
NewCollection ==
    /\ coll' = SRPProductList
    /\ added' = <<>>
    /\ last' = [op |-> "SRPProductList"]
    /\ UNCHANGED <<products, analysis, ncalls, other, linked, held>>

\* product_list.add_product(SRPProduct(**raw)): reached only when the
\* construction of the record succeeds
AddProduct ==
    \E i \in 1..ListPool :
        /\ Len(added) < MaxListLen
        /\ SRPProduct(ListRaw(i)).ok
        /\ LET product == SRPProduct(ListRaw(i)).value[1]
           IN  /\ coll' = add_product(coll, product)
               /\ added' = Append(added, product)
               /\ last' = [op |-> "add_product", before |-> coll, product |-> product]
        /\ UNCHANGED <<products, analysis, ncalls, other, linked, held>>

GetProductsByCountry ==
    \E country \in Range(Country) :
        /\ coll' = get_products_by_country(coll, country).self
        /\ last' = [op |-> "get_products_by_country", before |-> coll, key |-> country,
                    value |-> get_products_by_country(coll, country).value]
        /\ UNCHANGED <<products, analysis, ncalls, added, other, linked, held>>

GetProductsByCurrency ==
    \E currency \in Range(Currency) :
        /\ coll' = get_products_by_currency(coll, currency).self
        /\ last' = [op |-> "get_products_by_currency", before |-> coll, key |-> currency,
                    value |-> get_products_by_currency(coll, currency).value]
        /\ UNCHANGED <<products, analysis, ncalls, added, other, linked, held>>

GetProductsByRiskLevel ==
    \E risk_level \in Range(RiskLevel) :
        /\ coll' = get_products_by_risk_level(coll, risk_level).self
        /\ last' = [op |-> "get_products_by_risk_level", before |-> coll, key |-> risk_level,
                    value |-> get_products_by_risk_level(coll, risk_level).value]
        /\ UNCHANGED <<products, analysis, ncalls, added, other, linked, held>>

NextList ==
    \/ NewCollection
    \/ AddProduct
    \/ GetProductsByCountry
    \/ GetProductsByCurrency
    \/ GetProductsByRiskLevel

SpecList == Init /\ [][NextList]_vars

----------------------------------------------------------------------------
(* Properties of analyze_products *)

\* analyze_products has just returned
Analyzed == last.op = "analyze_products"

\* ... and it was the first call on a newly created analyzer
Fresh == Analyzed /\ ncalls = 1

\* the records of the collection analyzed
Records == products.products

\* sum of nominal_value over the records of ps, by position
RECURSIVE TotalFrom(_, _)
TotalFrom(ps, i) == IF i > Len(ps) THEN 0 ELSE ps[i].nominal_value + TotalFrom(ps, i + 1)

\* the four categorical dimensions: field of the record, breakdown map, enum
Dimensions ==
    {[field |-> "country", map |-> "by_country", enum |-> Range(Country)],
     [field |-> "currency", map |-> "by_currency", enum |-> Range(Currency)],
     [field |-> "risk_level", map |-> "by_risk_level", enum |-> Range(RiskLevel)],
     [field |-> "product_type", map |-> "by_product_type", enum |-> Range(ProductType)]}

\* sum of the 'count' values of a breakdown map
RECURSIVE CountSum(_, _)
CountSum(map, keys) ==
    IF keys = {} THEN 0
    ELSE LET k == CHOOSE x \in keys : TRUE
         IN  map[k].count + CountSum(map, keys \ {k})

\* C1: a newly created analyzer that analyzes a collection (empty or not)
\* reports total_products = number of records of the collection
TotalProductsIsLength == Fresh => analysis.total_products = Len(Records)

TotalProductsWitness ==
    Fresh /\ Len(Records) = 2 /\ Records[1] = Records[2] /\ analysis.total_products = 2

\* C2: for a newly created analyzer, total_value is the sum of nominal_value
\* over the records, and average_nominal_value is total_value / total_products
\* when total_products > 0 and 0 otherwise
TotalAndAverage ==
    Fresh =>
        /\ analysis.total_value = TotalFrom(Records, 1)
        /\ analysis.average_nominal_value =
              IF analysis.total_products > 0
              THEN Div(analysis.total_value, analysis.total_products)
              ELSE Zero

TotalAndAverageWitness ==
    Fresh /\ analysis.total_value = 3 /\ analysis.average_nominal_value = <<3, 2>>

\* C3: for a newly created analyzer and each categorical dimension, every
\* record is counted in exactly one entry of the breakdown map (the entry of
\* its own value, whose count is the number of records with that value), and
\* the counts of the map sum to total_products
PartitionCounts ==
    Fresh =>
        \A d \in Dimensions :
            LET map == analysis[d.map]
            IN  /\ \A i \in DOMAIN Records :
                      Cardinality({k \in DOMAIN map : Records[i][d.field] = k}) = 1
                /\ \A k \in DOMAIN map :
                      map[k].count = Cardinality({i \in DOMAIN Records : Records[i][d.field] = k})
                /\ CountSum(map, DOMAIN map) = analysis.total_products

PartitionCountsWitness ==
    /\ Fresh
    /\ DOMAIN analysis.by_country = {"FR", "BE"}
    /\ Len(Records) = 2
    /\ \E k \in DOMAIN analysis.by_product_type : analysis.by_product_type[k].count = 2

\* C4: for a newly created analyzer, each breakdown map has a key if and only
\* if at least one record has that value on the dimension; no count is 0
SparseBreakdowns ==
    Fresh =>
        \A d \in Dimensions :
            LET map == analysis[d.map]
            IN  /\ \A v \in d.enum :
                      v \in DOMAIN map <=> \E i \in DOMAIN Records : Records[i][d.field] = v
                /\ DOMAIN map \subseteq d.enum
                /\ \A k \in DOMAIN map : map[k].count /= 0

SparseBreakdownsWitness ==
    /\ Fresh
    /\ Len(Records) = 2
    /\ DOMAIN analysis.by_country = {"FR"}
    /\ Cardinality(DOMAIN analysis.by_currency) = 2

\* C5: analyzing an empty collection with a newly created analyzer returns
\* zero scalars, empty breakdown maps, empty monthly_evolution and no top issuer
EmptyCollectionIsZero ==
    (Fresh /\ Records = <<>>) =>
        /\ analysis.total_products = 0
        /\ analysis.total_value = 0
        /\ analysis.average_nominal_value = Zero
        /\ DOMAIN analysis.by_country = {}
        /\ DOMAIN analysis.by_currency = {}
        /\ DOMAIN analysis.by_risk_level = {}
        /\ DOMAIN analysis.by_product_type = {}
        /\ DOMAIN analysis.monthly_evolution = {}
        /\ analysis.top_issuers = <<>>

EmptyCollectionWitness ==
    /\ Fresh
    /\ Records = <<>>
    /\ last.arg /= None
    /\ analysis.total_products = 0

\* C6 (as stated): whatever was analyzed before, the result of the last
\* analyze_products call is the result a newly created analyzer gives for
\* the same collection
ResultDependsOnCollectionOnly ==
    Analyzed => analysis = analyze_products(SRPAnalyzer(None), Some(products)).analysis

----------------------------------------------------------------------------
(* Properties of the issuer ranking *)

Top == analysis.top_issuers

IssuerSet == {Records[i].issuer : i \in DOMAIN Records}

\* position of the first record of issuer x in the collection
FirstIndex(x) ==
    CHOOSE i \in DOMAIN Records :
        Records[i].issuer = x /\ \A j \in 1..(i - 1) : Records[j].issuer /= x

\* total nominal value of the records of issuer x
IssuerTotal(x) ==
    LET Of(p) == p.issuer = x
    IN  TotalFrom(SelectSeq(Records, Of), 1)

\* x comes before y in the ranking: larger total, or equal total and seen first
RankedBefore(x, y) ==
    \/ IssuerTotal(x) > IssuerTotal(y)
    \/ IssuerTotal(x) = IssuerTotal(y) /\ FirstIndex(x) < FirstIndex(y)

\* C7: after analyze_products, top_issuers has at most 10 entries, is sorted by
\* total_value in non-increasing order, two issuers of the collection with equal
\* total_value appear in the order of their first record, and with more than
\* 10 issuers the 10 entries are the first 10 of that ordering
TopIssuersRanked ==
    Analyzed =>
        /\ Len(Top) <= 10
        /\ \A i, j \in DOMAIN Top : i < j => Top[i].total_value >= Top[j].total_value
        /\ \A i, j \in DOMAIN Top :
              (/\ i < j
               /\ Top[i].total_value = Top[j].total_value
               /\ Top[i].issuer \in IssuerSet
               /\ Top[j].issuer \in IssuerSet)
              => FirstIndex(Top[i].issuer) < FirstIndex(Top[j].issuer)
        /\ Cardinality(IssuerSet) > 10 =>
              /\ Len(Top) = 10
              /\ \A i \in DOMAIN Top :
                    /\ Top[i].issuer \in IssuerSet
                    /\ Top[i].total_value = IssuerTotal(Top[i].issuer)
                    /\ \A j \in DOMAIN Top : i < j => RankedBefore(Top[i].issuer, Top[j].issuer)
                    /\ \A x \in IssuerSet \ {Top[k].issuer : k \in DOMAIN Top} :
                          RankedBefore(Top[i].issuer, x)

\* eleven issuers, the one left out ties with the last one kept, and the list
\* is not all ties
TopIssuersWitness ==
    /\ Analyzed
    /\ Cardinality(IssuerSet) > 10
    /\ Len(Top) = 10
    /\ Top[1].total_value > Top[10].total_value
    /\ Top[9].total_value = Top[10].total_value
    /\ \E x \in IssuerSet \ {Top[k].issuer : k \in DOMAIN Top} :
          IssuerTotal(x) = Top[10].total_value

----------------------------------------------------------------------------
(* Properties of get_filtered_products *)

Filtered == last.op = "get_filtered_products"

\* the filter set of the call, {} when none was given
Given == IF last.filters /= None THEN last.filters[1] ELSE NoFilters

\* x occurs in s when the case of the letters is ignored
ContainsIgnoringCase(s, x) ==
    \E i \in 0..(Len(s) - Len(x)) :
        \A k \in 1..Len(x) : LowerChar(s[i + k]) = LowerChar(x[k])

\* p satisfies every predicate supplied in f
Satisfies(p, f) ==
    /\ f.country /= None => p.country = f.country[1]
    /\ f.currency /= None => p.currency = f.currency[1]
    /\ f.product_type /= None => p.product_type = f.product_type[1]
    /\ f.risk_level /= None => p.risk_level = f.risk_level[1]
    /\ f.min_nominal_value /= None => p.nominal_value >= f.min_nominal_value[1]
    /\ f.max_nominal_value /= None => p.nominal_value <= f.max_nominal_value[1]
    /\ f.issuer /= None => ContainsIgnoringCase(p.issuer, f.issuer[1])

\* C8: get_filtered_products returns exactly the records of the analyzer's
\* collection that satisfy every supplied predicate, in their original order;
\* an absent key does not constrain, no filter set or {} returns every record
FilterReturnsMatching ==
    Filtered =>
        LET Keep(p) == Satisfies(p, Given)
        IN  /\ last.value = SelectSeq(Records, Keep)
            /\ (last.filters = None \/ last.filters = Some(NoFilters)) => last.value = Records

FilterWitness ==
    /\ Filtered
    /\ last.filters /= None
    /\ Given.country /= None /\ Given.min_nominal_value /= None /\ Given.issuer /= None
    /\ Given.currency = None /\ Given.sector = None
    /\ Len(Records) = 2
    /\ Len(last.value) = 1

\* C9: a filter set holding an unrecognized key gives the same records as the
\* same filter set without that key
UnknownKeyIgnored ==
    (Filtered /\ last.filters /= None /\ Given.sector /= None) =>
        last.value =
            get_filtered_products([products |-> products, analysis |-> analysis],
                                  Some([Given EXCEPT !.sector = None]))

UnknownKeyWitness ==
    /\ Filtered
    /\ last.filters /= None
    /\ Given.sector /= None
    /\ Given.country /= None
    /\ Len(last.value) = 1
    /\ Len(Records) = 2

----------------------------------------------------------------------------
(* Properties of the record constructor *)

Constructed == last.op = "SRPProduct"

BadNominal(r) == r.nominal_value <= 0

BadCoupon(r) == r.coupon_rate /= None /\ (r.coupon_rate[1] < 0 \/ r.coupon_rate[1] > 100)

MaturityValidation ==
    Constructed =>
        LET r == last.raw
            Later == DateLess(r.issue_date, r.maturity_date[1])
        IN  /\ (r.maturity_date /= None /\ ~Later) =>
                    (~last.ok /\ "maturity_date" \in last.errors)
            /\ r.maturity_date = None => "maturity_date" \notin last.errors
            /\ (r.maturity_date /= None /\ Later) => "maturity_date" \notin last.errors

\* a maturity date equal to the issue date is the only error of a record
MaturityValidationWitness ==
    /\ Constructed
    /\ last.raw.maturity_date = Some(last.raw.issue_date)
    /\ ~last.ok
    /\ last.errors = {"maturity_date"}

----------------------------------------------------------------------------
(* Properties of the collection *)

NoDuplicate(s) == \A i, j \in DOMAIN s : s[i] = s[j] => i = j

EmptyIdentity(p) == p.product_id = <<>> \/ p.product_name = <<>> \/ p.issuer = <<>>

\* C12: no collection holds a record whose id, name or issuer is the empty
\* string
NoEmptyIdentity ==
    \A i \in DOMAIN coll.products : ~EmptyIdentity(coll.products[i])

\* C13: after any sequence of add_product calls on a collection created empty,
\* total_count is the number of records added, and countries and currencies
\* hold exactly the distinct countries and currencies of the records added,
\* each once
CollectionCounts ==
    /\ coll.total_count = Len(added)
    /\ Range(coll.countries) = {added[i].country : i \in DOMAIN added}
    /\ NoDuplicate(coll.countries)
    /\ Range(coll.currencies) = {added[i].currency : i \in DOMAIN added}
    /\ NoDuplicate(coll.currencies)

\* three records added, two of them of the same country and currency
CollectionCountsWitness ==
    /\ last.op = "add_product"
    /\ Len(added) = 3
    /\ coll.total_count = 3
    /\ Len(coll.countries) = 2
    /\ Len(coll.currencies) = 2
    /\ added[1].country = added[3].country
    /\ added[1].currency = added[3].currency

\* s is a subsequence of t: some increasing choice of positions of t gives s
IsSubsequence(s, t) ==
    \E f \in [DOMAIN s -> DOMAIN t] :
        /\ \A i, j \in DOMAIN s : i < j => f[i] < f[j]
        /\ \A i \in DOMAIN s : s[i] = t[f[i]]

\* the value returned holds exactly the records of the collection with
\* field = key, as often as the collection does, in the order of the collection
ExactlyMatching(field(_)) ==
    /\ IsSubsequence(last.value, last.before.products)
    /\ \A i \in DOMAIN last.value : field(last.value[i]) = last.key
    /\ Len(last.value) =
           Cardinality({i \in DOMAIN last.before.products : field(last.before.products[i]) = last.key})

CountryOf(p) == p.country

CurrencyOf(p) == p.currency

RiskLevelOf(p) == p.risk_level

\* C14: add_product keeps the records already present, in their positions (the
\* old sequence is a prefix of the new one); the three queries leave the
\* collection unchanged and return exactly the matching records in their
\* original relative order
AppendOnly ==
    /\ last.op = "add_product" =>
          /\ Len(coll.products) = Len(last.before.products) + 1
          /\ SubSeq(coll.products, 1, Len(last.before.products)) = last.before.products
          /\ coll.products[Len(coll.products)] = last.product
    /\ last.op = "get_products_by_country" =>
          (coll = last.before /\ ExactlyMatching(CountryOf))
    /\ last.op = "get_products_by_currency" =>
          (coll = last.before /\ ExactlyMatching(CurrencyOf))
    /\ last.op = "get_products_by_risk_level" =>
          (coll = last.before /\ ExactlyMatching(RiskLevelOf))

\* a query by country returns the first and the third of three records
AppendOnlyWitness ==
    /\ last.op = "get_products_by_country"
    /\ Len(coll.products) = 3
    /\ last.value = <<coll.products[1], coll.products[3]>>
    /\ coll.products[1] /= coll.products[3]

----------------------------------------------------------------------------
(* Properties of the batch functions *)

Converted == last.op = "convert_to_srp_products"

\* converting or validating the raw record alone raises
RaisesAlone(item, h) == convert_item(item, h) = None

\* the positions of the raw records of the batch that do not raise
Kept(data, h) == {i \in DOMAIN data : ~RaisesAlone(data[i], h)}

\* C15: convert_to_srp_products does not fail on a batch; a raw record whose
\* conversion or validation raises is skipped, every other raw record is
\* converted, and the list returned holds the converted records in the order
\* of the input
ConvertSkipsBadRecords ==
    Converted =>
        /\ ~last.raised
        /\ Len(last.value) = Cardinality(Kept(last.data, last.h))
        /\ \E f \in [DOMAIN last.value -> Kept(last.data, last.h)] :
              /\ \A i, j \in DOMAIN last.value : i < j => f[i] < f[j]
              /\ \A i \in DOMAIN last.value :
                    Some(last.value[i]) = convert_item(last.data[f[i]], last.h)

\* a bad record in front of a good one: the good one is returned
ConvertSkipsWitness ==
    /\ Converted
    /\ Len(last.data) = 2
    /\ RaisesAlone(last.data[1], last.h)
    /\ ~RaisesAlone(last.data[2], last.h)
    /\ Len(last.value) = 1
    /\ last.value[1].maturity_date /= None

Validated == last.op = "validate_srp_data"

\* the raw record has a non-empty value for the field
Present(item, f) ==
    /\ item[f] /= None
    /\ IF f \in {"country", "currency"} THEN item[f][1] /= "" ELSE item[f][1] /= <<>>

\* the raw record has what the claim asks of a valid record
CleanItem(item) ==
    /\ \A f \in {"id", "name", "issuer", "country", "currency", "issue_date"} : Present(item, f)
    /\ fromisoformat(item.issue_date[1]) /= None
    /\ item.nominal_value /= None /\ item.nominal_value[1].num /\ item.nominal_value[1].v > 0
    /\ \/ item.maturity_date = None
       \/ /\ fromisoformat(item.maturity_date[1]) /= None
          /\ DateLess(fromisoformat(item.issue_date[1])[1], fromisoformat(item.maturity_date[1])[1])
    /\ \/ item.coupon_rate = None
       \/ /\ item.coupon_rate[1].num
          /\ item.coupon_rate[1].v >= 0 /\ item.coupon_rate[1].v <= 100

\* a required field of the raw record is missing or empty, or its
\* nominal_value is a number <= 0
FlawedItem(item) ==
    \/ \E f \in {"id", "name", "issuer", "country", "currency", "issue_date"} : ~Present(item, f)
    \/ item.nominal_value = None
    \/ item.nominal_value[1].num /\ item.nominal_value[1].v <= 0

\* C19: validate_srp_data does not raise and returns one list of messages: the
\* list is empty when every raw record is valid, and it holds a message
\* naming record i when record i has an empty or missing required field or a
\* nominal_value <= 0
ValidateReportsErrors ==
    Validated =>
        /\ ~last.raised
        /\ (\A i \in DOMAIN last.data : CleanItem(last.data[i])) => last.value = <<>>
        /\ \A i \in DOMAIN last.data :
              FlawedItem(last.data[i]) => \E k \in DOMAIN last.value : last.value[k].record = i

\* a valid first record and a second one without issue_date but with a
\* maturity_date: every message names record 2
ValidateWitness ==
    /\ Validated
    /\ Len(last.data) = 2
    /\ CleanItem(last.data[1])
    /\ last.data[1].maturity_date /= None
    /\ last.data[2].issue_date = None
    /\ last.data[2].maturity_date /= None
    /\ Len(last.value) = 2
    /\ \A k \in DOMAIN last.value : last.value[k].record = 2

----------------------------------------------------------------------------
(* Properties of export and report *)

Exported == last.op = "export_analysis_to_json"

Reported == last.op = "generate_report"

\* the call tried to write a file
WriteAttempted ==
    \/ Exported
    \/ /\ Reported
       /\ last.before.analysis.total_products /= 0
       /\ last.file_path /= None /\ last.file_path[1] /= <<>>

WriteFailed == WriteAttempted /\ ~last.writable

\* the same call on the same analyzer when the file can be written
SuccessfulCall ==
    IF Exported
    THEN export_analysis_to_json(last.before, last.file_path[1], TRUE)
    ELSE generate_report(last.before, last.file_path, TRUE, last.now[1])

\* what a following report and a following export give on the analyzer self
FollowingContent(self) ==
    [report |-> [now \in Clocks |-> generate_report(self, None, TRUE, now).value],
     export |-> export_analysis_to_json(self, <<"r">>, TRUE).file]

\* C16: a write failure during export_analysis_to_json or
\* generate_report(output_file) leaves the analyzer's result and collection
\* unchanged, and a following report or export gives the same content as after
\* a successful write
WriteFailureKeepsResult ==
    WriteFailed =>
        /\ analysis = last.before.analysis
        /\ products = last.before.products
        /\ FollowingContent([products |-> products, analysis |-> analysis])
              = FollowingContent(SuccessfulCall.self)

\* the export of a result of two records fails
WriteFailureWitness ==
    /\ WriteFailed
    /\ Exported
    /\ last.file = None
    /\ analysis.total_products = 2
    /\ Len(products.products) = 2

\* C17: a write failure during export_analysis_to_json or
\* generate_report(output_file) is surfaced to the caller: the raised error or
\* returned value differs from that of a successful write
WriteFailureSurfaced ==
    WriteFailed =>
        <<last.raised, last.value>> /= <<SuccessfulCall.raised, SuccessfulCall.value>>

Breakdowns == {"by_country", "by_currency", "by_risk_level", "by_product_type", "monthly_evolution"}

HasSection(name) ==
    /\ name \in DOMAIN last.value.sections
    /\ last.value.sections[name] /= None

\* C18: the report has a subsection for each breakdown (country, currency,
\* risk level, product type, calendar month) that is non-empty and a "no data"
\* placeholder for each one that is empty, besides the header, the overall
\* statistics and the issuer ranking table
ReportCoversBreakdowns ==
    Reported =>
        \A d \in Breakdowns :
            IF DOMAIN last.before.analysis[d] /= {}
            THEN HasSection(d)
            ELSE last.value.placeholder

----------------------------------------------------------------------------
(* Properties of the breakdown entries *)

\* the key of an entry under which the values of a dimension are listed
ListedUnder(field) ==
    CASE field = "country" -> "countries"
      [] field = "currency" -> "currencies"
      [] field = "product_type" -> "product_types"
      [] field = "risk_level" -> "risk_distribution"

\* the values of the dimension that the entry shows: a list of values, or for
\* the risk level the keys of the frequency distribution
ValuesShown(entry, field) ==
    IF ListedUnder(field) \notin DOMAIN entry THEN {}
    ELSE IF field = "risk_level" THEN DOMAIN entry.risk_distribution
         ELSE entry[ListedUnder(field)]

RECURSIVE FrequencySum(_, _)
FrequencySum(dist, keys) ==
    IF keys = {} THEN 0
    ELSE LET k == CHOOSE x \in keys : TRUE
         IN  dist[k] + FrequencySum(dist, keys \ {k})

\* count, total_value and average_value of the entry are those of the partition
EntryTotals(entry, part) ==
    /\ entry.count = Len(part)
    /\ entry.total_value = TotalFrom(part, 1)
    /\ entry.average_value = Div(entry.total_value, entry.count)

\* the entry has a risk-level frequency distribution that counts the records
\* of the partition
EntryRiskDistribution(entry, part) ==
    /\ "risk_distribution" \in DOMAIN entry
    /\ DOMAIN entry.risk_distribution = {part[i].risk_level : i \in DOMAIN part}
    /\ \A r \in DOMAIN entry.risk_distribution :
          entry.risk_distribution[r] = Cardinality({i \in DOMAIN part : part[i].risk_level = r})
    /\ FrequencySum(entry.risk_distribution, DOMAIN entry.risk_distribution) = entry.count

\* C20 as stated: for a newly created analyzer, each entry of each breakdown
\* has the count, total and average of its partition, the distinct values of
\* each of the other three dimensions, and a risk-level frequency distribution
\* whose frequencies sum to count
EveryEntryHasRiskDistribution ==
    Fresh =>
        \A d \in Dimensions : \A k \in DOMAIN analysis[d.map] :
            LET entry == analysis[d.map][k]
                part == Partition(Records, d.field, k)
            IN  /\ EntryTotals(entry, part)
                /\ \A o \in Dimensions \ {d} :
                      ValuesShown(entry, o.field) = {part[i][o.field] : i \in DOMAIN part}
                /\ EntryRiskDistribution(entry, part)

\* C20: for a newly created analyzer, each entry of each breakdown has the
\* count, total and average of its partition and the distinct values of each
\* other dimension among country, currency and product type; a country,
\* currency or product-type entry has a risk-level frequency distribution
\* whose keys are the risk levels of the partition and whose frequencies sum
\* to count; a risk-level entry has none
BreakdownEntries ==
    Fresh =>
        \A d \in Dimensions : \A k \in DOMAIN analysis[d.map] :
            LET entry == analysis[d.map][k]
                part == Partition(Records, d.field, k)
            IN  /\ EntryTotals(entry, part)
                /\ \A o \in Dimensions \ {d} :
                      o.field /= "risk_level" =>
                          ValuesShown(entry, o.field) = {part[i][o.field] : i \in DOMAIN part}
                /\ IF d.field = "risk_level"
                   THEN "risk_distribution" \notin DOMAIN entry
                   ELSE EntryRiskDistribution(entry, part)

\* two records of one country, each of its own risk level
BreakdownEntriesWitness ==
    /\ Fresh
    /\ Len(Records) = 2
    /\ \E k \in DOMAIN analysis.by_country :
          /\ analysis.by_country[k].count = 2
          /\ Cardinality(DOMAIN analysis.by_country[k].risk_distribution) = 2
    /\ Cardinality(DOMAIN analysis.by_risk_level) = 2

----------------------------------------------------------------------------
(* Properties of the issuer lists of the partitions *)

\* the records of the partition with issuer x, and the first of them
WithIssuer(part, x) == {i \in DOMAIN part : part[i].issuer = x}

FirstIn(part, x) == CHOOSE i \in WithIssuer(part, x) : \A j \in WithIssuer(part, x) : i <= j

\* list is a ranking of the issuers of the partition by record count, cut at limit
RanksByCount(list, part, limit) ==
    /\ Len(list) <= limit
    /\ \A i \in DOMAIN list :
          /\ WithIssuer(part, list[i].issuer) /= {}
          /\ list[i].count = Cardinality(WithIssuer(part, list[i].issuer))
    /\ \A i, j \in DOMAIN list : i < j =>
          /\ list[i].count >= list[j].count
          /\ list[i].count = list[j].count =>
                FirstIn(part, list[i].issuer) < FirstIn(part, list[j].issuer)
    /\ \A x \in {part[i].issuer : i \in DOMAIN part} \ {list[i].issuer : i \in DOMAIN list} :
          \A i \in DOMAIN list : Cardinality(WithIssuer(part, x)) <= list[i].count

\* C21: for a newly created analyzer, the top_issuers list of a country entry
\* has at most 5 elements and of a risk-level entry at most 3; each is ordered
\* by record count within the partition, non-increasing, equal counts in the
\* order of first appearance in the partition; each count is the number of
\* records of the partition with that issuer, and no issuer left out has a
\* count greater than a listed one
PartitionTopIssuers ==
    Fresh =>
        /\ \A k \in DOMAIN analysis.by_country :
              RanksByCount(analysis.by_country[k].top_issuers, Partition(Records, "country", k), 5)
        /\ \A k \in DOMAIN analysis.by_risk_level :
              RanksByCount(analysis.by_risk_level[k].top_issuers, Partition(Records, "risk_level", k), 3)

\* seven issuers in one country and risk level, the first with two records:
\* five are listed for the country, three for the risk level
PartitionTopIssuersWitness ==
    /\ Fresh
    /\ Cardinality(IssuerSet) = 7
    /\ Len(analysis.by_country["FR"].top_issuers) = 5
    /\ Len(analysis.by_risk_level["3"].top_issuers) = 3
    /\ analysis.by_country["FR"].top_issuers[1].count = 2
    /\ analysis.by_country["FR"].top_issuers[2].count = 1

----------------------------------------------------------------------------
(* Properties of the product-type entries *)

\* positions of the records of the partition that have a coupon rate
WithCoupon(part) == {i \in DOMAIN part : part[i].coupon_rate /= None}

RECURSIVE CouponSum(_, _)
CouponSum(part, idx) ==
    IF idx = {} THEN 0
    ELSE LET i == CHOOSE x \in idx : TRUE
         IN  part[i].coupon_rate[1] + CouponSum(part, idx \ {i})

\* C22: for a newly created analyzer, average_coupon of a product-type entry
\* is the mean of coupon_rate over the records of the partition that have one
\* (a rate of 0 counts), and None when no record of the partition has one
AverageCoupon ==
    Fresh =>
        \A k \in DOMAIN analysis.by_product_type :
            LET part == Partition(Records, "product_type", k)
            IN  analysis.by_product_type[k].average_coupon =
                    IF WithCoupon(part) = {} THEN None
                    ELSE Some(Div(CouponSum(part, WithCoupon(part)), Cardinality(WithCoupon(part))))

\* a partition of one record without a coupon rate and one with the rate 0 has
\* the average 0
AverageCouponWitness ==
    /\ Fresh
    /\ \E k \in DOMAIN analysis.by_product_type :
          LET part == Partition(Records, "product_type", k)
          IN  /\ Len(part) = 2
              /\ Cardinality(WithCoupon(part)) = 1
              /\ \A i \in WithCoupon(part) : part[i].coupon_rate = Some(0)
              /\ analysis.by_product_type[k].average_coupon = Some(Zero)

----------------------------------------------------------------------------
(* Properties of the global issuer ranking and of the months *)

\* C23: after the analysis of a non-empty collection, the issuer ranking has
\* one entry per exact issuer string (issuers that differ in letter case have
\* separate entries), and the count, total_value, average_value and the sets
\* of countries, currencies and product types of an entry are those of the
\* records with exactly that issuer
IssuersCaseSensitive ==
    (Analyzed /\ Records /= <<>>) =>
        /\ \A i, j \in DOMAIN Top : Top[i].issuer = Top[j].issuer => i = j
        /\ Cardinality(IssuerSet) <= 10 => {Top[i].issuer : i \in DOMAIN Top} = IssuerSet
        /\ \A i \in DOMAIN Top :
              LET Of(p) == p.issuer = Top[i].issuer
                  part == SelectSeq(Records, Of)
              IN  /\ part /= <<>>
                  /\ Top[i].count = Len(part)
                  /\ Top[i].total_value = TotalFrom(part, 1)
                  /\ Top[i].average_value = Div(Top[i].total_value, Top[i].count)
                  /\ Top[i].countries = {part[n].country : n \in DOMAIN part}
                  /\ Top[i].currencies = {part[n].currency : n \in DOMAIN part}
                  /\ Top[i].product_types = {part[n].product_type : n \in DOMAIN part}

\* two records whose issuers differ only in the case of a letter: two entries
IssuersCaseSensitiveWitness ==
    /\ Analyzed
    /\ Len(Records) = 2
    /\ Records[1].issuer /= Records[2].issuer
    /\ Lower(Records[1].issuer) = Lower(Records[2].issuer)
    /\ Len(Top) = 2
    /\ Top[1].count = 1

YearMonth(p) == <<p.issue_date.year, p.issue_date.month>>

\* C24: for a newly created analyzer, monthly_evolution has one key per
\* (year, month) of the issue dates of the collection and no other; records
\* of the same year and month share a key whatever their day; count,
\* total_value and average_value of an entry are those of the records of that
\* month; the counts sum to total_products
MonthlyEvolution ==
    Fresh =>
        LET months == analysis.monthly_evolution
        IN  /\ DOMAIN months = {month_key(Records[i].issue_date) : i \in DOMAIN Records}
            /\ Cardinality(DOMAIN months) = Cardinality({YearMonth(Records[i]) : i \in DOMAIN Records})
            /\ \A i, j \in DOMAIN Records :
                  YearMonth(Records[i]) = YearMonth(Records[j]) <=>
                      month_key(Records[i].issue_date) = month_key(Records[j].issue_date)
            /\ \A k \in DOMAIN months :
                  LET ym == CHOOSE x \in {YearMonth(Records[i]) : i \in DOMAIN Records} :
                                \E i \in DOMAIN Records :
                                    YearMonth(Records[i]) = x /\ month_key(Records[i].issue_date) = k
                      In(p) == YearMonth(p) = ym
                      part == SelectSeq(Records, In)
                  IN  /\ months[k].count = Len(part)
                      /\ months[k].total_value = TotalFrom(part, 1)
                      /\ months[k].average_value = Div(months[k].total_value, months[k].count)
            /\ CountSum(months, DOMAIN months) = analysis.total_products

\* two records of one month with different days: one key, count 2
MonthlyEvolutionWitness ==
    /\ Fresh
    /\ Len(Records) = 2
    /\ Records[1].issue_date.day /= Records[2].issue_date.day
    /\ Cardinality(DOMAIN analysis.monthly_evolution) = 1
    /\ \A k \in DOMAIN analysis.monthly_evolution : analysis.monthly_evolution[k].count = 2

----------------------------------------------------------------------------
(* Properties of the month keys *)

\* (year, month) of a comes before (year, month) of b
EarlierMonth(a, b) == a.year < b.year \/ (a.year = b.year /\ a.month < b.month)

\* C25: for two issue dates accepted by the record model, the lexicographic
\* order of their month keys agrees with the chronological order of their
\* (year, month)
MonthKeyOrder ==
    last.op = "month_key" => (last.less <=> EarlierMonth(last.a, last.b))

----------------------------------------------------------------------------
(* Properties of the objects shared with the caller *)

\* C26: a result is never mutated: once analyze_products has returned R1, a
\* later analyze_products on the same analyzer leaves every field of R1 (the
\* object the analyzer returned) as it was
ResultNeverMutated ==
    held.R1 /= None => analysis = held.R1[1]

\* C27: after analyze_products(c) has returned R, an add_product on c leaves
\* every field of R unchanged: R is as it was returned, and the result of a
\* newly created analyzer still counts the records c had when analyzed
AddLeavesResult ==
    (last.op = "add_product" /\ last.on = "coll" /\ linked = "coll" /\ last.before = held.c[1]) =>
        /\ analysis = held.R[1]
        /\ coll /= held.c[1]
        /\ ncalls = 1 => analysis.total_products = Len(held.c[1].products)

\* a collection of one record is analyzed, then a second record is added
AddLeavesResultWitness ==
    /\ last.op = "add_product"
    /\ last.on = "coll"
    /\ linked = "coll"
    /\ ncalls = 1
    /\ last.before = held.c[1]
    /\ Len(coll.products) = 2
    /\ analysis.total_products = 1

\* the collection given to the most recent analyze_products call, as it is now
GivenNow == IF linked = "coll" THEN coll ELSE other

\* C28: get_filtered_products evaluates its predicates against the collection
\* given to the most recent analyze_products call as that collection is at the
\* time of the filter call; when that collection is empty it returns no record
FilterFollowsCollection ==
    (last.op = "get_filtered_products" /\ ncalls > 0) =>
        /\ last.value =
              apply_filters(GivenNow.products,
                            IF last.filters /= None THEN last.filters[1] ELSE NoFilters)
        /\ GivenNow.products = <<>> => last.value = <<>>

\* the record added after the analysis is returned by the country filter
\* although the result counts one record
FilterFollowsWitness ==
    /\ last.op = "get_filtered_products"
    /\ linked = "coll"
    /\ ncalls = 1
    /\ analysis.total_products = 1
    /\ Len(coll.products) = 2
    /\ coll.total_count = 2
    /\ last.filters /= None /\ last.filters[1].country /= None
    /\ last.value = <<coll.products[2]>>

\* C29: get_filtered_products hands out no handle on the collection's
\* record list: appending to the list returned changes neither the records of
\* the collection nor its total_count
ReturnedListIsDistinct ==
    last.op = "append" =>
        /\ products.products = last.before.products
        /\ products.total_count = last.before.total_count

----------------------------------------------------------------------------
(* Properties of the defaults of the conversion *)

\* the issue date the converted record gets: the one present, or 2024-08-15
IssueDateUsed(item) == fromisoformat(ItemGet(item.issue_date, <<2024, 8, 15>>))

\* every value present in the raw record is valid (a maturity date is valid
\* when it is later than the issue date the record gets)
ValidPresent(item) ==
    /\ item.country = None \/ item.country[1] \in Range(Country)
    /\ item.currency = None \/ item.currency[1] \in Range(Currency)
    /\ item.type = None \/ item.type[1] \in Range(ProductType)
    /\ item.risk = None \/ item.risk[1] \in Range(RiskLevel)
    /\ IssueDateUsed(item) /= None
    /\ \/ item.maturity_date = None
       \/ item.maturity_date[1] = <<>>
       \/ /\ fromisoformat(item.maturity_date[1]) /= None
          /\ DateLess(IssueDateUsed(item)[1], fromisoformat(item.maturity_date[1])[1])
    /\ item.nominal_value = None
          \/ (item.nominal_value[1].num /\ item.nominal_value[1].v > 0)
    /\ item.coupon_rate = None
          \/ (item.coupon_rate[1].num /\ item.coupon_rate[1].v >= 0 /\ item.coupon_rate[1].v <= 100)

\* the record has the value present in the raw record, or the default
FilledFrom(record, item, h) ==
    /\ record.product_id = IF item.id = None THEN h ELSE item.id[1]
    /\ record.product_name = IF item.name = None THEN NomInconnu ELSE item.name[1]
    /\ record.issuer = IF item.issuer = None THEN EmetteurInconnu ELSE item.issuer[1]
    /\ record.country = IF item.country = None THEN "FR" ELSE item.country[1]
    /\ record.currency = IF item.currency = None THEN "EUR" ELSE item.currency[1]
    /\ record.issue_date = IF item.issue_date = None
                            THEN [year |-> 2024, month |-> 8, day |-> 15]
                            ELSE fromisoformat(item.issue_date[1])[1]
    /\ record.nominal_value = IF item.nominal_value = None THEN 1000 ELSE item.nominal_value[1].v
    /\ record.product_type = IF item.type = None THEN "other" ELSE item.type[1]
    /\ record.risk_level = IF item.risk = None THEN "3" ELSE item.risk[1]

====
